---- MODULE Spec2Model ----
(***************************************************************************)
(* A model of display.py (WeakLensingDeblending): one run of main(), from  *)
(* the parsed command line to the saved / displayed figure.                *)
(*                                                                         *)
(* Numbers.  Physical lengths (arcsec) are integers.  The pixel scale is   *)
(* the exact ratio scale_num/scale_den, so a pixel coordinate              *)
(* phys/scale + 0.5*dim is the exact ratio PixNum/PixDen with              *)
(* PixDen = 2*scale_num.  Fluxes are integers; the clip bounds vmin, vmax   *)
(* are kept in hundredths of a flux unit so that a percentile with linear  *)
(* interpolation and a clip fraction given in percent are exact.  Sky      *)
(* levels are perfect squares.  Angles are integer multiples of pi/12      *)
(* radians.  A scaled pixel sqrt(num/den) is kept as the ratio num/den.    *)
(***************************************************************************)
EXTENDS Integers, Sequences, FiniteSets, TLC

\* Bounds of the model.
NumObjects == 3     \* rows of the object table
RegionSpan == 2     \* region coordinates range over -RegionSpan..RegionSpan arcsec

\* Program constant: the smallest selected sub-image used for z-scaling.
MinZscaleArea == 16

None == <<>>
Some(v) == <<v>>

Min(a, b) == IF a <= b THEN a ELSE b
Max(a, b) == IF a >= b THEN a ELSE b

\* math.floor and math.ceil of the ratio n/d, d > 0.
Floor(n, d) == n \div d
CeilAsFloor(n, d) == n \div d
Ceil(n, d) == -((-n) \div d)

\* np.arange(n)
Arange(n) == [k \in 1..n |-> k - 1]

RECURSIVE SeqSum(_)
SeqSum(s) == IF s = <<>> THEN 0 ELSE Head(s) + SeqSum(Tail(s))

(***************************************************************************)
(* galsim.BoundsI: an inclusive integer rectangle.                         *)
(***************************************************************************)
BoundsI(x0, x1, y0, y1) == [xmin |-> x0, xmax |-> x1, ymin |-> y0, ymax |-> y1]
IsDefined(b) == b.xmin <= b.xmax /\ b.ymin <= b.ymax
Area(b) == IF IsDefined(b) THEN (b.xmax - b.xmin + 1) * (b.ymax - b.ymin + 1) ELSE 0
\* bounds & bounds
Overlap(a, b) == BoundsI(Max(a.xmin, b.xmin), Min(a.xmax, b.xmax),
                         Max(a.ymin, b.ymin), Min(a.ymax, b.ymax))
\* bounds += bounds
Hull(a, b) == BoundsI(Min(a.xmin, b.xmin), Max(a.xmax, b.xmax),
                      Min(a.ymin, b.ymin), Max(a.ymax, b.ymax))
Pixels(b) == (b.xmin .. b.xmax) \X (b.ymin .. b.ymax)
Contains(b, p) == p[1] \in b.xmin..b.xmax /\ p[2] \in b.ymin..b.ymax

\* A galsim.Image: its bounds and its pixel array.
ImageOf(b, f(_)) == [bounds |-> b, array |-> [p \in Pixels(b) |-> f(p)]]
CountNonzero(arr) == Cardinality({p \in DOMAIN arr : arr[p] # 0})

(***************************************************************************)
(* The results provider (descwl.output.Reader, results.survey,             *)
(* results.table, results.select, results.get_subimage).                   *)
(***************************************************************************)
Surveys ==
    { [image_width |-> 5, image_height |-> 4, scale_num |-> sc[1], scale_den |-> sc[2],
       mean_sky_level |-> sky] :
         sc \in {<<1, 1>>, <<2, 1>>, <<1, 2>>}, sky \in {100, 400} }

DefaultSurvey == [image_width |-> 5, image_height |-> 4, scale_num |-> 1, scale_den |-> 1,
                  mean_sky_level |-> 100]

\* results.survey.image.bounds
SurveyBounds(s) == BoundsI(0, s.image_width - 1, 0, s.image_height - 1)

\* np.sqrt(mean_sky_level); the surveys of the model have square sky levels.
Sqrt(n) == CHOOSE r \in 0..n : r * r = n

Rows == 0 .. NumObjects - 1

\* One row of results.table.
TableRow(i) ==
    [db_id |-> i + 1, grp_id |-> 10 * ((i + 2) \div 2),
     dx |-> i - 1, dy |-> 1 - (i % 2),
     a |-> i + 1, b |-> 1, beta |-> i + 1, match |-> -1]

\* The postage stamp of object i: its bounds and its flux at a pixel.
StampBounds(s, i) ==
    IF i = 0 THEN BoundsI(0, 3, 0, 3)
    ELSE LET x0 == (2 * i + 1) % (s.image_width - 1)
             y0 == (i + 1) % (s.image_height - 1)
         IN  BoundsI(x0, x0 + 1, y0, y0 + 1)
StampFlux(s, i, p) ==
    IF ~Contains(StampBounds(s, i), p) \/ i % 3 = 2 THEN 0
    ELSE (p[1] + 2 * p[2] + i + 1) % 4

\* The noise-free survey image: the sum of all stamps.
SurveyFlux(s, p) == SeqSum([k \in 1..NumObjects |-> StampFlux(s, k - 1, p)])

\* add_noise(seed): one of the perturbations a Poisson draw can produce.
NoisePatterns == {1, 2}
NoiseDelta(k, p) == ((p[1] + p[2] + k) % 3) - 1

\* results.get_subimage(indices): None without indices, else the hull of the
\* stamps with the summed flux of the selected objects.
RECURSIVE HullOf(_, _)
HullOf(s, idx) ==
    IF Len(idx) = 1 THEN StampBounds(s, idx[1])
    ELSE Hull(StampBounds(s, Head(idx)), HullOf(s, Tail(idx)))
get_subimage(s, idx) ==
    IF idx = <<>> THEN None
    ELSE LET flux(p) == SeqSum([k \in 1..Len(idx) |-> StampFlux(s, idx[k], p)])
         IN  Some(ImageOf(HullOf(s, idx), flux))

(***************************************************************************)
(* The predicate evaluator: results.select(selectors..., mode, 'mask').    *)
(***************************************************************************)
Cut(col, op, val) == [kind |-> "cmp", col |-> col, op |-> op, val |-> val]
CutNone == [kind |-> "NONE", col |-> "", op |-> "", val |-> 0]
CutAll == [kind |-> "ALL", col |-> "", op |-> "", val |-> 0]

Compare(l, op, r) ==
    CASE op = "==" -> l = r
      [] op = "!=" -> l # r
      [] op = ">=" -> l >= r
      [] op = "<=" -> l <= r
      [] op = ">"  -> l > r
      [] op = "<"  -> l < r

EvalCut(c, row) ==
    CASE c.kind = "NONE" -> FALSE
      [] c.kind = "ALL"  -> TRUE
      [] c.kind = "cmp"  -> Compare(row[c.col], c.op, c.val)

select(tbl, cuts, mode) ==
    [i \in DOMAIN tbl |->
        IF mode = "and" THEN \A k \in 1..Len(cuts) : EvalCut(cuts[k], tbl[i])
                        ELSE \E k \in 1..Len(cuts) : EvalCut(cuts[k], tbl[i])]

np_any(mask) == \E i \in DOMAIN mask : mask[i]
logical_and(m1, m2) == [i \in DOMAIN m1 |-> m1[i] /\ m2[i]]
logical_or(m1, m2) == [i \in DOMAIN m1 |-> m1[i] \/ m2[i]]
(***************************************************************************)
(* The detection catalog matcher: results.match_sextractor(file).          *)
(* A catalog either provides the shape columns for every row or for none.  *)
(***************************************************************************)
Catalogs == {"shapes", "noshapes"}
DetectedRow(cat, j) ==
    [X_IMAGE |-> j + 2, Y_IMAGE |-> j + 1, has_shape |-> (cat = "shapes"),
     A_IMAGE |-> j + 2, B_IMAGE |-> j + 1, THETA_IMAGE |-> 30 * (j + 1)]
\* matched_indices: objects 1, 2, 4, 5, ... are matched, in catalog order.
MatchIndex(i) == IF i % 3 = 0 THEN -1 ELSE i - (i \div 3) - 1
NumDetected == Cardinality({i \in Rows : MatchIndex(i) >= 0})
Detected(cat) == [j \in 0 .. NumDetected - 1 |-> DetectedRow(cat, j)]

(***************************************************************************)
(* The command line (argparse namespace) and the environment of a run.     *)
(***************************************************************************)
Region(k, x0, x1, y0, y1) ==
    [kind |-> k, xmin |-> x0, xmax |-> x1, ymin |-> y0, ymax |-> y1]
NoRegion == Region("none", 0, 0, 0, 0)
\* A string float() or the bracket assertion rejects.
MalformedRegion == Region("malformed", 0, 0, 0, 0)

Coords == -RegionSpan .. RegionSpan

DefaultArgs ==
    [no_display |-> FALSE, output_name |-> FALSE,
     galaxy |-> <<>>, group |-> <<>>, select |-> <<>>, select_region |-> NoRegion,
     match_catalog |-> None, match_info |-> None,
     magnification |-> 1, crop |-> FALSE, view_region |-> NoRegion,
     draw_moments |-> FALSE, info |-> None, no_crosshair |-> FALSE,
     clip_lo_noise_fraction |-> 10, clip_hi_percentile |-> 90,
     hide_background |-> FALSE, hide_selected |-> FALSE,
     add_noise |-> None, clip_noise |-> -1,
     max_view_size |-> 2048, highlight |-> "red"]

DefaultEnv == [file_ok |-> TRUE, stamps |-> TRUE, survey |-> DefaultSurvey]

CutLists ==
    { <<>>, <<CutNone>>, <<CutAll>>,
      <<Cut("grp_id", "==", 10)>>,
      <<Cut("db_id", ">=", 2)>>,
      <<Cut("db_id", ">=", 2), Cut("grp_id", "==", 10)>>,
      <<Cut("dx", "<", 1), Cut("db_id", "!=", 1)>> }
GroupLists == { <<>>, <<10>>, <<20, 99>> }
GalaxyLists == { <<>>, <<NumObjects>>, <<1, NumObjects + 4>> }
SelectRegions ==
    { NoRegion, MalformedRegion, Region("ok", 0, 0, -1, 1),
      Region("ok", -1, 1, 0, RegionSpan), Region("ok", 0, RegionSpan, -RegionSpan, 2) }

\* Runs that exercise the selection engine.
SelectionInputs ==
    { [args |-> [DefaultArgs EXCEPT !.select = c, !.group = g, !.galaxy = o,
                                    !.select_region = r, !.draw_moments = TRUE],
       env |-> [DefaultEnv EXCEPT !.stamps = st]] :
        c \in CutLists, g \in GroupLists, o \in GalaxyLists, r \in SelectRegions,
        st \in BOOLEAN }

\* The view regions of the model: every pair of coordinates on one axis, valid or
\* not, with a fixed interval on the other axis.
ViewRegions ==
    { NoRegion, MalformedRegion }
    \cup { Region("ok", x0, x1, -1, 1) : x0 \in Coords, x1 \in Coords }
    \cup { Region("ok", -1, 1, y0, y1) : y0 \in Coords, y1 \in Coords }

\* Runs that exercise the viewport resolver.
ViewInputs ==
    { [args |-> [DefaultArgs EXCEPT !.view_region = r, !.crop = c, !.magnification = m,
                                    !.max_view_size = x, !.galaxy = o],
       env |-> [DefaultEnv EXCEPT !.survey = s]] :
        r \in ViewRegions, c \in BOOLEAN, m \in {1, 2}, x \in {3, 2048},
        o \in {<<>>, <<2>>}, s \in {v \in Surveys : v.mean_sky_level = 100} }

\* Runs that exercise the compositor.
CompositeInputs ==
    { [args |-> [DefaultArgs EXCEPT !.hide_background = hb, !.hide_selected = hs,
                                    !.add_noise = n, !.clip_noise = cn,
                                    !.clip_hi_percentile = q, !.highlight = h,
                                    !.galaxy = o, !.view_region = r],
       env |-> [DefaultEnv EXCEPT !.survey = s]] :
        hb \in BOOLEAN, hs \in BOOLEAN, n \in {None, Some(0), Some(7)}, cn \in {-1, 1},
        q \in {0, 50, 90, 100}, h \in {"red", "none"},
        o \in {<<>>, <<1>>, <<3>>, <<1, 2>>},
        r \in {NoRegion, Region("ok", RegionSpan + 1, RegionSpan + 2, -1, 1)},
        s \in {v \in Surveys : v.scale_num = 1 /\ v.scale_den = 1} }

\* Runs that exercise the annotations and the output.
AnnotationInputs ==
    { [args |-> [DefaultArgs EXCEPT !.match_catalog = mc, !.info = i, !.match_info = mi,
                                    !.draw_moments = dm, !.no_crosshair = nc,
                                    !.no_display = nd, !.output_name = out,
                                    !.select = c],
       env |-> [DefaultEnv EXCEPT !.survey = s, !.file_ok = ok]] :
        mc \in {None} \cup {Some(cat) : cat \in Catalogs},
        i \in {None, Some("ok"), Some("bad")}, mi \in {None, Some("ok"), Some("bad")},
        dm \in BOOLEAN, nc \in BOOLEAN, nd \in BOOLEAN, out \in BOOLEAN,
        c \in {<<>>, <<CutAll>>},
        s \in {v \in Surveys : v.mean_sky_level = 100}, ok \in BOOLEAN }

Inputs == SelectionInputs \cup ViewInputs \cup CompositeInputs \cup AnnotationInputs

VARIABLES
    args,             \* the parsed command line
    env,              \* the output file and survey the run reads
    pc,               \* the position of the run in main()
    result,           \* None while running or after falling off the end, else the return value
    message,          \* the line printed before an early return
    table,            \* results.table
    image,            \* results.survey.image.array
    noise_added,      \* results.add_noise was called
    detected,         \* the detection catalog rows, or None
    cuts,             \* args.select
    selection,        \* the selection mask
    selected_indices, \* np.arange(num_objects)[selection]
    selected_image,   \* results.get_subimage(selected_indices)
    warnings,         \* the WARNING lines printed
    view,             \* xmin,xmax,ymin,ymax: the view window in pixels, over PixDen
    view_bounds,      \* the integer pixel bounds of the sub-images to display
    figure,           \* the matplotlib figure: its size in pixels, over PixDen
    background,       \* the background image, sized to the view
    highlighted,      \* the highlighted image, sized to the view
    zscale_pixels,    \* the pixels the high clip is taken from
    vmin,             \* the low clip, in hundredths (its last assignment)
    vmax,             \* the high clip, in hundredths
    highlighted_z,    \* the scaled highlighted image
    background_z,     \* the scaled background image
    final_rgb,        \* the composite image handed to imshow
    index,            \* the position of the annotation loop in selected_indices
    directives,       \* the markers and annotations added to the axes
    ellipses,         \* ellipse_centers, _widths, _heights, _angles
    match_ellipses,   \* match_ellipse_centers, _widths, _heights, _angles
    num_match_ellipses,
    collections,      \* the ellipse collections added to the axes
    saved,            \* figure.savefig was called
    shown             \* plt.show was called

loaded == <<table, image, noise_added, detected>>
chosen == <<cuts, selection, selected_indices, selected_image>>
viewing == <<view, view_bounds, figure>>
buffers == <<background, highlighted>>
scaling == <<zscale_pixels, vmin, vmax, highlighted_z, background_z, final_rgb>>
arrays == <<ellipses, match_ellipses, num_match_ellipses>>
overlay == <<index, directives, arrays, collections>>
output == <<saved, shown>>
drawing == <<scaling, overlay, output>>

vars == <<args, env, pc, result, message, loaded, chosen, warnings, viewing, buffers, drawing>>

Init ==
    /\ \E in \in Inputs : args = in.args /\ env = in.env
    /\ pc = "check_args"
    /\ result = None
    /\ message = ""
    /\ table = <<>>
    /\ image = <<>>
    /\ noise_added = FALSE
    /\ detected = None
    /\ cuts = <<>>
    /\ selection = <<>>
    /\ selected_indices = <<>>
    /\ selected_image = None
    /\ warnings = {}
    /\ view = None
    /\ view_bounds = None
    /\ figure = None
    /\ background = <<>>
    /\ highlighted = <<>>
    /\ zscale_pixels = <<>>
    /\ vmin = None
    /\ vmax = None
    /\ highlighted_z = <<>>
    /\ background_z = <<>>
    /\ final_rgb = <<>>
    /\ index = 0
    /\ directives = <<>>
    /\ ellipses = <<>>
    /\ match_ellipses = <<>>
    /\ num_match_ellipses = 0
    /\ collections = <<>>
    /\ saved = FALSE
    /\ shown = FALSE

\* print a line and return v.
Return(v, msg) == pc' = "done" /\ result' = Some(v) /\ message' = msg
Continue(label) == pc' = label /\ UNCHANGED <<result, message>>

\* Lines 117-122: nothing to do.
CheckArgs ==
    /\ pc = "check_args"
    /\ IF args.no_display /\ ~args.output_name
       THEN Return(0, "No display our output requested.")
       ELSE IF args.hide_background /\ args.hide_selected
       THEN Return(0, "No pixels visible with --hide-background and --hide-selected.")
       ELSE Continue("load")
    /\ UNCHANGED <<args, env, loaded, chosen, warnings, viewing, buffers, drawing>>

\* Lines 124-132: load the analysis results.
Load ==
    /\ pc = "load"
    /\ IF ~env.file_ok
       THEN Return(-1, "RuntimeError") /\ UNCHANGED <<table, image, cuts>>
       ELSE /\ table' = [i \in Rows |-> TableRow(i)]
            /\ image' = [p \in Pixels(SurveyBounds(env.survey)) |-> SurveyFlux(env.survey, p)]
            /\ cuts' = args.select
            /\ Continue("add_noise")
    /\ UNCHANGED <<args, env, noise_added, detected, selection, selected_indices,
                   selected_image, warnings, viewing, buffers, drawing>>

\* Lines 134-136: add noise, if requested.
AddNoise ==
    /\ pc = "add_noise"
    /\ IF args.add_noise # None
       THEN \E k \in NoisePatterns :
               /\ image' = [p \in DOMAIN image |-> image[p] + NoiseDelta(k, p)]
               /\ noise_added' = TRUE
       ELSE UNCHANGED <<image, noise_added>>
    /\ Continue("match")
    /\ UNCHANGED <<args, env, table, detected, chosen, warnings, viewing, buffers, drawing>>

\* Lines 138-144: match detected objects to simulated objects, if requested.
Match ==
    /\ pc = "match"
    /\ IF args.match_catalog # None
       THEN /\ detected' = Some(Detected(args.match_catalog[1]))
            /\ table' = [i \in Rows |-> [table[i] EXCEPT !.match = MatchIndex(i)]]
       ELSE UNCHANGED <<detected, table>>
    /\ Continue("select_region")
    /\ UNCHANGED <<args, env, image, noise_added, chosen, warnings, viewing,
                   buffers, drawing>>

RegionValid(r) == r.kind = "ok" /\ r.xmin < r.xmax /\ r.ymin < r.ymax

\* Lines 146-155: the select-region becomes four more cuts.
SelectRegion ==
    /\ pc = "select_region"
    /\ LET r == args.select_region IN
       IF r.kind = "none" THEN Continue("select") /\ UNCHANGED cuts
       ELSE IF ~RegionValid(r) THEN Return(-1, "Invalid select-region") /\ UNCHANGED cuts
       ELSE /\ cuts' = cuts \o << Cut("dx", ">=", r.xmin), Cut("dx", "<", r.xmax),
                                  Cut("dy", ">=", r.ymin), Cut("dy", "<", r.ymax) >>
            /\ Continue("select")
    /\ UNCHANGED <<args, env, loaded, selection, selected_indices, selected_image, warnings,
                   viewing, buffers, drawing>>

\* Lines 165-169 and 171-175: OR the objects with an identifier into the mask.
RECURSIVE OrIdentifiers(_, _, _, _)
OrIdentifiers(tbl, sel, col, ids) ==
    IF ids = <<>> THEN sel
    ELSE OrIdentifiers(tbl,
             logical_or(sel, select(tbl, <<Cut(col, "==", Head(ids))>>, "and")),
             col, Tail(ids))

\* Lines 167-168 and 173-174: the identifiers that match no row.
Unmatched(tbl, col, ids) ==
    { ids[k] : k \in { j \in 1..Len(ids) :
                         ~np_any(select(tbl, <<Cut(col, "==", ids[j])>>, "and")) } }

\* Lines 158-163: the cuts, or nothing.
CutSelection(tbl, cs) ==
    IF cs # <<>> THEN select(tbl, cs, "and") ELSE select(tbl, <<CutNone>>, "and")

\* Line 176
SelectedIndices(sel) == SelectSeq(Arange(NumObjects), LAMBDA i : sel[i])

\* Lines 157-178: perform object selection.
Select ==
    /\ pc = "select"
    /\ LET byCuts == CutSelection(table, cuts)
           byGroup == OrIdentifiers(table, byCuts, "grp_id", args.group)
           final == OrIdentifiers(table, byGroup, "db_id", args.galaxy)
       IN  /\ selection' = final
           /\ selected_indices' = SelectedIndices(final)
    /\ warnings' = warnings
          \cup { <<"no group found", id>> : id \in Unmatched(table, "grp_id", args.group) }
          \cup { <<"no galaxy found", id>> : id \in Unmatched(table, "db_id", args.galaxy) }
    /\ Continue("subimage")
    /\ UNCHANGED <<args, env, loaded, cuts, selected_image, viewing, buffers, drawing>>

\* Lines 180-186: the image of the selected objects (might be None).
GetSubimage ==
    /\ pc = "subimage"
    /\ IF np_any(selection) /\ ~env.stamps
       THEN Return(-1, "Cannot display selected objects without any stamps available.")
            /\ UNCHANGED selected_image
       ELSE /\ selected_image' = get_subimage(env.survey, selected_indices)
            /\ Continue("view")
    /\ UNCHANGED <<args, env, loaded, cuts, selection, selected_indices, warnings, viewing,
                   buffers, drawing>>

(***************************************************************************)
(* The viewport resolver.                                                  *)
(***************************************************************************)
\* Pixel coordinates are ratios over PixDen.
PixDen(s) == 2 * s.scale_num
\* Lines 201-204: phys/scale + 0.5*dim, as a numerator over PixDen.
ToPixel(s, phys, dim) == 2 * phys * s.scale_den + dim * s.scale_num

Window(x0, x1, y0, y1) == [xmin |-> x0, xmax |-> x1, ymin |-> y0, ymax |-> y1]

\* Lines 206-208: integer pixel bounds that cover the view window.
CoverLo(n, d) == Floor(n, d)
CoverHi(n, d) == Ceil(n, d) - 1
CoveringBounds(w, d) ==
    BoundsI(CoverLo(w.xmin, d), CoverHi(w.xmax, d), CoverLo(w.ymin, d), CoverHi(w.ymax, d))

ViewPolicyCropFirst(a, sub) ==
    IF a.crop /\ sub # None THEN "crop"
    ELSE IF a.view_region.kind # "none" THEN "region"
    ELSE "full"
\* Lines 192, 209, 213: which of the three branches is taken.
ViewPolicy(a, sub) ==
    IF a.view_region.kind # "none" THEN "region"
    ELSE IF a.crop /\ sub # None THEN "crop"
    ELSE "full"

\* Lines 191-223: the view window and the view bounds.
ResolveView ==
    /\ pc = "view"
    /\ LET s == env.survey
           d == PixDen(s)
           r == args.view_region
           policy == ViewPolicy(args, selected_image)
       IN  IF policy = "region" /\ ~RegionValid(r)
           THEN Return(-1, "Invalid view-window") /\ UNCHANGED <<view, view_bounds>>
           ELSE /\ Continue("figure")
                /\ CASE policy = "region" ->
                          LET w == Window(ToPixel(s, r.xmin, s.image_width),
                                          ToPixel(s, r.xmax, s.image_width),
                                          ToPixel(s, r.ymin, s.image_height),
                                          ToPixel(s, r.ymax, s.image_height))
                          IN  /\ view' = Some(w)
                              /\ view_bounds' = Some(CoveringBounds(w, d))
                     [] policy = "crop" ->
                          LET b == selected_image[1].bounds
                          IN  /\ view_bounds' = Some(b)
                              /\ view' = Some(Window(b.xmin * d, (b.xmax + 1) * d,
                                                     b.ymin * d, (b.ymax + 1) * d))
                     [] policy = "full" ->
                          /\ view_bounds' = Some(SurveyBounds(s))
                          /\ view' = Some(Window(0, s.image_width * d,
                                                 0, s.image_height * d))
    /\ UNCHANGED <<args, env, loaded, chosen, warnings, figure, buffers, drawing>>

TooBigUnmagnified(extent, mag, max_size, d) == extent > max_size * d
\* Lines 226-229: the guard on the size of the displayed image.
TooBig(extent, mag, max_size, d) == extent * mag > max_size * d

\* Lines 225-239: initialize a figure to display the view bounds.
InitFigure ==
    /\ pc = "figure"
    /\ LET d == PixDen(env.survey)
           view_width == view[1].xmax - view[1].xmin
           view_height == view[1].ymax - view[1].ymin
       IN  IF \/ TooBig(view_width, args.magnification, args.max_view_size, d)
              \/ TooBig(view_height, args.magnification, args.max_view_size, d)
           THEN Return(-1, "Requested view dimensions too big.") /\ UNCHANGED figure
           ELSE /\ figure' = Some([width |-> args.magnification * view_width,
                                   height |-> args.magnification * view_height])
                /\ Continue("buffers")
    /\ UNCHANGED <<args, env, loaded, chosen, warnings, view, view_bounds, buffers, drawing>>

(***************************************************************************)
(* The image compositor.                                                   *)
(***************************************************************************)
\* Lines 242-251: a zero-filled image over vb with the overlap copied from src.
Paste(vb, src_bounds, src_array, copy) ==
    LET overlap == Overlap(src_bounds, vb)
    IN  [p \in Pixels(vb) |->
            IF copy /\ Area(overlap) > 0 /\ Contains(overlap, p) THEN src_array[p] ELSE 0]

NothingHighlighted(bg, hl, hide_bg) == CountNonzero(hl) = 0
\* Lines 252-253: there is nothing to show.
NothingVisible(bg, hl, hide_bg) ==
    CountNonzero(hl) = 0 /\ (hide_bg \/ CountNonzero(bg) = 0)

\* Lines 241-255: the background and highlighted images, sized to the view.
FillBuffers ==
    /\ pc = "buffers"
    /\ LET vb == view_bounds[1]
           bg == Paste(vb, SurveyBounds(env.survey), image, ~args.hide_background)
           hl == IF selected_image # None
                 THEN Paste(vb, selected_image[1].bounds, selected_image[1].array,
                            ~args.hide_selected)
                 ELSE [p \in Pixels(vb) |-> 0]
       IN  /\ background' = bg
           /\ highlighted' = hl
           /\ IF NothingVisible(bg, hl, args.hide_background)
              THEN Return(-1, "There are no non-zero pixel values in the view window.")
              ELSE Continue("zscale")
    /\ UNCHANGED <<args, env, loaded, chosen, warnings, viewing, drawing>>

\* np.percentile(values, q) with linear interpolation, in hundredths: the
\* values of arr over the pixels dom in ascending order, read at q*(n-1)/100.
RECURSIVE SortAsc(_, _)
SortAsc(arr, dom) ==
    IF dom = {} THEN <<>>
    ELSE LET m == CHOOSE p \in dom : \A q \in dom : arr[p] <= arr[q]
         IN  <<arr[m]>> \o SortAsc(arr, dom \ {m})
Percentile100(arr, dom, q) ==
    LET v == SortAsc(arr, dom)
        at == q * (Len(v) - 1)
        lo == at \div 100
        frac == at % 100
    IN  IF frac = 0 THEN 100 * v[lo + 1]
        ELSE 100 * v[lo + 1] + frac * (v[lo + 2] - v[lo + 1])

\* Line 266
NonZeroPixels(arr) == {p \in DOMAIN arr : arr[p] # 0}

UseSelectedAbove(sub) == sub # None /\ Area(sub[1].bounds) > MinZscaleArea
\* Lines 258-264: the image the high clip is taken from.
UseSelected(sub) == sub # None /\ Area(sub[1].bounds) >= MinZscaleArea
ZscalePixels(sub, img) == IF UseSelected(sub) THEN sub[1].array ELSE img

\* Lines 259-262: the fallback is reported for a small selected image only.
ZscaleWarning(sub) ==
    IF sub # None /\ Area(sub[1].bounds) < MinZscaleArea
    THEN { <<"using full image for z-scaling", Area(sub[1].bounds)>> }
    ELSE {}

\* Line 269: clip_lo_noise_fraction (in percent) * sqrt(mean_sky_level), in hundredths.
SkyClip(a, s) == a.clip_lo_noise_fraction * Sqrt(s.mean_sky_level)
\* Line 280: clip_noise * sqrt(mean_sky_level), in hundredths.
NoiseClip(a, s) == 100 * a.clip_noise * Sqrt(s.mean_sky_level)
\* Line 279: the truth value of args.add_noise.
NoiseFlag(a) == a.add_noise # None /\ a.add_noise[1] # 0
\* Lines 269 and 279-280: the low clip of the background.
BackgroundClip(a, s) == IF NoiseFlag(a) THEN NoiseClip(a, s) ELSE SkyClip(a, s)

\* np.clip(x, lo, hi) = minimum(maximum(x, lo), hi)
np_clip(x, lo, hi) == Min(Max(x, lo), hi)

\* Lines 274-278, 283: zscale((clip(pixel,vmin,vmax) - vmin)/(vmax - vmin)) of a
\* pixel: the square root of num/den, kept as the exact ratio under the root.
Scaled(pixel, lo, hi) ==
    [num |-> np_clip(100 * pixel, lo, hi) - lo, den |-> hi - lo]
ScaledImage(arr, lo, hi) == [p \in DOMAIN arr |-> Scaled(arr[p], lo, hi)]

\* A scaled value is a number (not NaN), and lies in [0,1].
IsNumber(z) == z.den # 0 /\ (z.den > 0 => z.num >= 0) /\ (z.den < 0 => z.num <= 0)
InUnit(z) == IsNumber(z) /\ (z.den > 0 => z.num <= z.den) /\ (z.den < 0 => z.num >= z.den)

\* Lines 257-283: the z scaling and the scaled images.
ZScale ==
    /\ pc = "zscale"
    /\ LET s == env.survey
           pixels == ZscalePixels(selected_image, image)
           hi == Percentile100(pixels, NonZeroPixels(pixels), args.clip_hi_percentile)
       IN  /\ zscale_pixels' = pixels
           /\ warnings' = warnings \cup ZscaleWarning(selected_image)
           /\ vmax' = Some(hi)
           /\ highlighted_z' = ScaledImage(highlighted, SkyClip(args, s), hi)
           /\ vmin' = Some(BackgroundClip(args, s))
           /\ background_z' = ScaledImage(background, BackgroundClip(args, s), hi)
    /\ Continue("composite")
    /\ UNCHANGED <<args, env, loaded, chosen, viewing, buffers, final_rgb, overlay,
                   output>>

\* Line 292
Highlighting(a) == a.highlight # "" /\ a.highlight # "none"

\* Lines 287-297: one channel of a final pixel is alpha*color + rgb*(1-alpha) with
\* color and the colormapped rgb in [0,1] (a NaN background maps to the colormap's
\* bad color), so it is in [0,1] when alpha is and NaN when alpha is.
Blend(a, alpha) ==
    IF ~Highlighting(a) THEN "unit"
    ELSE IF InUnit(alpha) THEN "unit"
    ELSE IF IsNumber(alpha) THEN "out"
    ELSE "nan"

\* Lines 312-319: np.empty does not initialize its entries; what an unassigned
\* entry holds is whatever the allocation left there.
Leftovers == {<<0, 1>>, <<7, 1>>}
\* An entry of an np.empty array that was not assigned, holding the leftover g.
Unset(g) == [set |-> FALSE, v |-> g]
Value(x) == [set |-> TRUE, v |-> x]
Empty(n, g) == [k \in 1..n |-> Unset(g)]
FourArrays(n, g) == [centers |-> Empty(n, g), widths |-> Empty(n, g),
                     heights |-> Empty(n, g), angles |-> Empty(n, g)]

\* Lines 285-320: the composite image, and the empty ellipse arrays.
Composite ==
    /\ pc = "composite"
    /\ final_rgb' = [p \in DOMAIN highlighted_z |-> Blend(args, highlighted_z[p])]
    /\ \E g \in Leftovers :
          /\ ellipses' = FourArrays(Len(selected_indices), g)
          /\ match_ellipses' = FourArrays(Len(selected_indices), g)
    /\ num_match_ellipses' = 0
    /\ index' = 0
    /\ Continue("annotate")
    /\ UNCHANGED <<args, env, loaded, chosen, warnings, viewing, buffers,
                   zscale_pixels, vmin, vmax, highlighted_z, background_z, directives,
                   collections, output>>

(***************************************************************************)
(* The annotation / matching adapter.                                      *)
(***************************************************************************)
\* Degrees of an angle given in multiples of pi/12.
Degrees(beta) == 15 * beta

\* Lines 369-370: an ellipse axis in pixels, as the ratio <<numerator, denominator>>.
EllipseAxis(s, semi) == <<semi * s.scale_den, s.scale_num>>

\* Lines 328-329: the centroid in display coordinates, over PixDen.
Center(s, info) == <<ToPixel(s, info.dx, s.image_width), ToPixel(s, info.dy, s.image_height)>>
\* Lines 331-332: the matched centroid, over PixDen.
MatchCenter(s, m) == <<(2 * m.X_IMAGE - 1) * s.scale_num, (2 * m.Y_IMAGE - 1) * s.scale_num>>

\* Lines 325-326
MatchInfo(a, info, det) ==
    IF a.match_catalog # None /\ info.match >= 0 THEN Some(det[1][info.match]) ELSE None

\* Lines 333-339: the crosshairs.
Crosshairs(a, s, info, m) ==
    IF a.no_crosshair THEN <<>>
    ELSE <<[kind |-> "+", at |-> Center(s, info)]>>
         \o (IF m # None THEN <<[kind |-> "x", at |-> MatchCenter(s, m[1])]>> ELSE <<>>)

FormatNeverFails(fmt) == FALSE
\* Lines 345-349, 357-361: the format references a field the row does not have.
FormatFails(fmt) == fmt = Some("bad")

\* Lines 368-371
SetEllipse(arr, k, s, info) ==
    [centers |-> [arr.centers EXCEPT ![k] = Value(Center(s, info))],
     widths  |-> [arr.widths  EXCEPT ![k] = Value(EllipseAxis(s, info.a))],
     heights |-> [arr.heights EXCEPT ![k] = Value(EllipseAxis(s, info.b))],
     angles  |-> [arr.angles  EXCEPT ![k] = Value(<<Degrees(info.beta), 1>>)]]

\* Lines 374-381: the center is stored before the first shape field is read.
SetMatchEllipse(arr, k, s, m) ==
    IF m.has_shape
    THEN [centers |-> [arr.centers EXCEPT ![k] = Value(MatchCenter(s, m))],
          widths  |-> [arr.widths  EXCEPT ![k] = Value(<<m.A_IMAGE, 1>>)],
          heights |-> [arr.heights EXCEPT ![k] = Value(<<m.B_IMAGE, 1>>)],
          angles  |-> [arr.angles  EXCEPT ![k] = Value(<<m.THETA_IMAGE, 1>>)]]
    ELSE [arr EXCEPT !.centers[k] = Value(MatchCenter(s, m))]

\* Lines 321-381: one pass of the loop over the selected objects.
Annotate ==
    /\ pc = "annotate"
    /\ index < Len(selected_indices)
    /\ LET s == env.survey
           info == table[selected_indices[index + 1]]
           m == MatchInfo(args, info, detected)
           marks == Crosshairs(args, s, info, m)
           label == IF args.info # None
                    THEN <<[kind |-> "text", at |-> Center(s, info)]>> ELSE <<>>
           match_label == IF m # None /\ args.match_info # None
                          THEN <<[kind |-> "text", at |-> MatchCenter(s, m[1])]>> ELSE <<>>
       IN  IF args.info # None /\ FormatFails(args.info)
           THEN /\ directives' = directives \o marks
                /\ Return(-1, "Invalid annotate-format")
                /\ UNCHANGED <<index, arrays>>
           ELSE IF m # None /\ args.match_info # None /\ FormatFails(args.match_info)
           THEN /\ directives' = directives \o marks \o label
                /\ Return(-1, "Invalid match-format")
                /\ UNCHANGED <<index, arrays>>
           ELSE /\ directives' = directives \o marks \o label \o match_label
                /\ IF args.draw_moments
                   THEN /\ ellipses' = SetEllipse(ellipses, index + 1, s, info)
                        /\ IF m # None
                           THEN /\ match_ellipses' = SetMatchEllipse(match_ellipses,
                                                        num_match_ellipses + 1, s, m[1])
                                /\ num_match_ellipses' =
                                       IF m[1].has_shape THEN num_match_ellipses + 1
                                       ELSE num_match_ellipses
                           ELSE UNCHANGED <<match_ellipses, num_match_ellipses>>
                   ELSE UNCHANGED arrays
                /\ index' = index + 1
                /\ Continue("annotate")
    /\ UNCHANGED <<args, env, loaded, chosen, warnings, viewing, buffers, scaling,
                   collections, output>>

\* Lines 383-399: draw any ellipses.
DrawEllipses ==
    /\ pc = "annotate"
    /\ index = Len(selected_indices)
    /\ collections' =
          IF args.draw_moments
          THEN <<[color |-> "ellipse", shapes |-> ellipses]>>
               \o (IF num_match_ellipses > 0
                   THEN <<[color |-> "match", shapes |-> match_ellipses]>> ELSE <<>>)
          ELSE <<>>
    /\ Continue("save")
    /\ UNCHANGED <<args, env, loaded, chosen, warnings, viewing, buffers, scaling,
                   index, directives, arrays, output>>

\* Lines 401-402
Save ==
    /\ pc = "save"
    /\ saved' = args.output_name
    /\ Continue("show")
    /\ UNCHANGED <<args, env, loaded, chosen, warnings, viewing, buffers, scaling,
                   overlay, shown>>

\* Lines 404-405, and the end of main.
Show ==
    /\ pc = "show"
    /\ shown' = ~args.no_display
    /\ Continue("done")
    /\ UNCHANGED <<args, env, loaded, chosen, warnings, viewing, buffers, scaling,
                   overlay, saved>>

Next ==
    \/ CheckArgs
    \/ Load
    \/ AddNoise
    \/ Match
    \/ SelectRegion
    \/ Select
    \/ GetSubimage
    \/ ResolveView
    \/ InitFigure
    \/ FillBuffers
    \/ ZScale
    \/ Composite
    \/ Annotate
    \/ DrawEllipses
    \/ Save
    \/ Show

Spec == Init /\ [][Next]_vars
(***************************************************************************)
(* Properties.                                                             *)
(***************************************************************************)
Range(q) == { q[k] : k \in 1..Len(q) }

\* C1: once the selection is made, a row is in the mask exactly when it passes
\* every cut (and there is a cut), or its grp_id is a requested group, or its
\* db_id is a requested galaxy; and selected_indices lists exactly the rows of
\* the mask, in ascending table order.
C1_SelectionMask ==
    selection # <<>> =>
        /\ \A i \in Rows :
              selection[i] <=>
                  \/ cuts # <<>> /\ \A k \in 1..Len(cuts) : EvalCut(cuts[k], table[i])
                  \/ table[i].grp_id \in Range(args.group)
                  \/ table[i].db_id \in Range(args.galaxy)
        /\ Range(selected_indices) = { i \in Rows : selection[i] }
        /\ \A k \in 1 .. Len(selected_indices) - 1 :
              selected_indices[k] < selected_indices[k + 1]

\* C1 witness: cuts, a group and a galaxy were all given, and each of the three
\* selects a row that the other two do not.
C1_Witness ==
    /\ selection # <<>>
    /\ cuts # <<>> /\ args.group # <<>> /\ args.galaxy # <<>>
    /\ \E i \in Rows : /\ selection[i]
                       /\ table[i].grp_id \notin Range(args.group)
                       /\ table[i].db_id \notin Range(args.galaxy)
    /\ \E i \in Rows : /\ table[i].grp_id \in Range(args.group)
                       /\ \E k \in 1..Len(cuts) : ~EvalCut(cuts[k], table[i])
                       /\ table[i].db_id \notin Range(args.galaxy)
    /\ \E i \in Rows : /\ table[i].db_id \in Range(args.galaxy)
                       /\ \E k \in 1..Len(cuts) : ~EvalCut(cuts[k], table[i])
                       /\ table[i].grp_id \notin Range(args.group)
    /\ Len(selected_indices) >= 2

\* C2: for a valid explicit view region, the view bounds converted back to
\* arcsec, (pixel - 0.5*dim)*scale, reach at least as far as the region on both
\* axes: low edge <= requested minimum, high edge (max bound + 1) >= requested
\* maximum.
C2_RegionCovered ==
    (view_bounds # None /\ args.view_region.kind # "none") =>
        LET s == env.survey
            r == args.view_region
            b == view_bounds[1]
        IN  /\ (2 * b.xmin - s.image_width) * s.scale_num <= 2 * r.xmin * s.scale_den
            /\ (2 * (b.xmax + 1) - s.image_width) * s.scale_num >= 2 * r.xmax * s.scale_den
            /\ (2 * b.ymin - s.image_height) * s.scale_num <= 2 * r.ymin * s.scale_den
            /\ (2 * (b.ymax + 1) - s.image_height) * s.scale_num >= 2 * r.ymax * s.scale_den

\* C2 witness: a region whose edges fall inside pixels on both axes was resolved.
C2_Witness ==
    /\ view_bounds # None /\ args.view_region.kind # "none"
    /\ view[1].xmin % PixDen(env.survey) # 0
    /\ view[1].xmax % PixDen(env.survey) # 0
    /\ view[1].ymin % PixDen(env.survey) # 0
    /\ view[1].ymax % PixDen(env.survey) # 0

\* C3: the view bounds come from exactly one policy, in priority order: the
\* explicit region when one is given (whatever crop and the selection are), else
\* the selected sub-image when crop is set and an object is selected, else the
\* full survey image.
C3_PolicyPriority ==
    view_bounds # None =>
        LET s == env.survey
            d == PixDen(s)
            r == args.view_region
            b == view_bounds[1]
        IN  IF r.kind # "none"
            THEN /\ b.xmin * d <= ToPixel(s, r.xmin, s.image_width)
                 /\ ToPixel(s, r.xmin, s.image_width) < (b.xmin + 1) * d
                 /\ b.xmax * d < ToPixel(s, r.xmax, s.image_width)
                 /\ ToPixel(s, r.xmax, s.image_width) <= (b.xmax + 1) * d
                 /\ b.ymin * d <= ToPixel(s, r.ymin, s.image_height)
                 /\ ToPixel(s, r.ymin, s.image_height) < (b.ymin + 1) * d
                 /\ b.ymax * d < ToPixel(s, r.ymax, s.image_height)
                 /\ ToPixel(s, r.ymax, s.image_height) <= (b.ymax + 1) * d
            ELSE IF args.crop /\ selected_indices # <<>>
            THEN selected_image # None /\ b = selected_image[1].bounds
            ELSE b = SurveyBounds(s)

\* C3 witness: a region, crop and a selection were all given, and the bounds
\* resolved are neither those of the selected sub-image nor the full image.
C3_Witness ==
    /\ view_bounds # None
    /\ args.view_region.kind # "none" /\ args.crop /\ selected_image # None
    /\ view_bounds[1] # selected_image[1].bounds
    /\ view_bounds[1] # SurveyBounds(env.survey)
WidthOf(b) == b.xmax - b.xmin + 1
HeightOf(b) == b.ymax - b.ymin + 1
TooBigMessage == "Requested view dimensions too big."
EmptyViewMessage == "There are no non-zero pixel values in the view window."

\* C4 (as stated): once the size guard has run, a resolved integer rectangle
\* whose width or height times the magnification exceeds max_view_size means the
\* run failed with the view-too-large error and composited nothing.
C4_IntegerRectangleGuard ==
    (view_bounds # None /\ pc # "figure") =>
        ((\/ WidthOf(view_bounds[1]) * args.magnification > args.max_view_size
          \/ HeightOf(view_bounds[1]) * args.magnification > args.max_view_size)
            => /\ result = Some(-1) /\ message = TooBigMessage
               /\ background = <<>> /\ final_rgb = <<>>)

\* C4 (amended): the guard is on the view window, xmax - xmin and ymax - ymin in
\* pixels: when either times the magnification exceeds max_view_size the run
\* fails with the view-too-large error and composites nothing.  Under the crop
\* and full-image policies the window is exactly as wide and high as the integer
\* rectangle; under an explicit region it is the region itself.
C4_ViewWindowGuard ==
    (view # None /\ pc # "figure") =>
        LET d == PixDen(env.survey)
            w == view[1]
            b == view_bounds[1]
        IN  /\ (\/ (w.xmax - w.xmin) * args.magnification > args.max_view_size * d
                \/ (w.ymax - w.ymin) * args.magnification > args.max_view_size * d)
                  => /\ result = Some(-1) /\ message = TooBigMessage
                     /\ figure = None /\ background = <<>> /\ final_rgb = <<>>
            /\ args.view_region.kind = "none"
                  => /\ w.xmax - w.xmin = d * WidthOf(b)
                     /\ w.ymax - w.ymin = d * HeightOf(b)

\* C4 witness: a run stopped by the size guard under magnification, with a
\* window that fits unmagnified.
C4_Witness ==
    /\ result = Some(-1) /\ message = TooBigMessage
    /\ view # None /\ figure = None /\ final_rgb = <<>>
    /\ args.magnification > 1
    /\ view[1].xmax - view[1].xmin <= args.max_view_size * PixDen(env.survey)
    /\ view[1].ymax - view[1].ymin <= args.max_view_size * PixDen(env.survey)

NoPixelsMessage == "No pixels visible with --hide-background and --hide-selected."
EmptyViewExactly ==
    (background # <<>> /\ pc # "buffers") =>
        ((result = Some(-1) /\ message = EmptyViewMessage)
           <=> /\ \A p \in DOMAIN highlighted : highlighted[p] = 0
               /\ (args.hide_background \/ \A p \in DOMAIN background : background[p] = 0))

FatalMessage ==
    << "RuntimeError", "Invalid select-region",
       "Cannot display selected objects without any stamps available.",
       "Invalid view-window", TooBigMessage, EmptyViewMessage,
       "Invalid annotate-format", "Invalid match-format" >>
ValidRegion(r) == r.kind = "ok" /\ r.xmin < r.xmax /\ r.ymin < r.ymax
FatalCondition(k) ==
    CASE k = 1 -> ~env.file_ok
      [] k = 2 -> args.select_region.kind # "none" /\ ~ValidRegion(args.select_region)
      [] k = 3 -> (\E i \in Rows : selection[i]) /\ ~env.stamps
      [] k = 4 -> args.view_region.kind # "none" /\ ~ValidRegion(args.view_region)
      [] k = 5 -> \/ (view[1].xmax - view[1].xmin) * args.magnification
                        > args.max_view_size * PixDen(env.survey)
                  \/ (view[1].ymax - view[1].ymin) * args.magnification
                        > args.max_view_size * PixDen(env.survey)
      [] k = 6 -> /\ \A p \in DOMAIN highlighted : highlighted[p] = 0
                  /\ (args.hide_background \/ \A p \in DOMAIN background : background[p] = 0)
      [] k = 7 -> args.info = Some("bad") /\ selected_indices # <<>>
      [] k = 8 -> /\ args.match_info = Some("bad") /\ args.match_catalog # None
                  /\ \E i \in Range(selected_indices) : table[i].match >= 0

\* C6: a run that returned early has neither saved nor shown the figure; a run
\* that returns an error stopped at the first fatal condition it met (the
\* condition of its message holds, none of the earlier ones does); and the figure
\* is saved or shown only in a run with no fatal condition at all, after the loop
\* has annotated every selected object.
C6_FailFast ==
    /\ result # None => (~saved /\ ~shown /\ collections = <<>> /\ pc = "done")
    /\ result = Some(-1) =>
          \E k \in 1..Len(FatalMessage) :
                /\ message = FatalMessage[k]
                /\ FatalCondition(k)
                /\ \A j \in 1 .. k - 1 : ~FatalCondition(j)
    /\ (saved \/ shown \/ pc \in {"save", "show"}) =>
          /\ result = None
          /\ index = Len(selected_indices)
          /\ \A k \in 1..Len(FatalMessage) : ~FatalCondition(k)

\* C6 witness: the match annotation of a later object failed after an earlier
\* object was annotated; an output file was asked for and nothing was written.
C6_Witness ==
    /\ result = Some(-1) /\ message = "Invalid match-format"
    /\ index >= 1 /\ directives # <<>>
    /\ args.output_name /\ ~args.no_display
    /\ ~saved /\ ~shown

Smallest(S) == CHOOSE x \in S : \A y \in S : x <= y
Largest(S) == CHOOSE x \in S : \A y \in S : x >= y
FallbackWarned == \E w \in warnings : w[1] = "using full image for z-scaling"
LargeSelection == selected_image # None /\ Area(selected_image[1].bounds) >= 16
ZscaleSource ==
    /\ zscale_pixels = IF LargeSelection THEN selected_image[1].array ELSE image
    /\ LET values == { zscale_pixels[p] : p \in DOMAIN zscale_pixels } \ {0}
       IN  /\ args.clip_hi_percentile = 100 => vmax[1] = 100 * Largest(values)
           /\ args.clip_hi_percentile = 0 => vmax[1] = 100 * Smallest(values)

\* C7 (as stated): the high clip is taken from the non-zero pixels of the
\* selected sub-image when there is one of at least 16 pixels and from those of
\* the full survey image in every other case; whenever the full image is used a
\* warning is printed, and the run goes on.
C7_WarnOnEveryFallback ==
    zscale_pixels # <<>> =>
        /\ ZscaleSource
        /\ ~LargeSelection => FallbackWarned
        /\ pc = "composite" => result = None

\* C7 (amended): the source of the high clip is as stated; the warning is printed
\* exactly when a selected sub-image exists and covers fewer than 16 pixels (with
\* nothing selected the full image is used without a warning), and the run goes on.
C7_WarnOnSmallSelection ==
    zscale_pixels # <<>> =>
        /\ ZscaleSource
        /\ FallbackWarned <=>
              (selected_image # None /\ Area(selected_image[1].bounds) < 16)
        /\ pc = "composite" => result = None

\* C7 witness: a selection of fewer than 16 pixels, the full image used for the
\* high clip, the warning printed, and the run at its next step.
C7_Witness ==
    /\ pc = "composite" /\ result = None
    /\ selected_image # None /\ Area(selected_image[1].bounds) < 16
    /\ zscale_pixels = image /\ zscale_pixels # selected_image[1].array
    /\ FallbackWarned

\* C8 (as stated): in a run where noise was added, whatever the seed, the low
\* clip is clip_noise * sqrt(mean_sky_level); in a run without noise it is
\* clip_lo_noise_fraction * sqrt(mean_sky_level).  (Clips are in hundredths.)
C8_NoiseClip ==
    vmin # None =>
        vmin[1] = IF noise_added
                  THEN 100 * args.clip_noise * Sqrt(env.survey.mean_sky_level)
                  ELSE args.clip_lo_noise_fraction * Sqrt(env.survey.mean_sky_level)

\* Equality of the ratios <<n, d>>.
SameRatio(x, y) == x[1] * y[2] = y[1] * x[2]

\* C9 (as stated): with draw_moments, the ellipse collection of a finished run has
\* one ellipse per selected object, in table order, centered at
\* (0.5*image_width + dx/scale, 0.5*image_height + dy/scale), of width 2*a/scale,
\* height 2*b/scale and angle degrees(beta).
C9_EllipseGeometry ==
    (pc \in {"save", "show", "done"} /\ result = None /\ args.draw_moments) =>
        /\ collections # <<>>
        /\ LET e == collections[1].shapes
               s == env.survey
           IN  /\ Len(e.centers) = Len(selected_indices)
               /\ \A k \in 1..Len(selected_indices) :
                     LET row == table[selected_indices[k]] IN
                     /\ e.centers[k].set /\ e.widths[k].set
                     /\ e.heights[k].set /\ e.angles[k].set
                     /\ SameRatio(<<e.centers[k].v[1], 2 * s.scale_num>>,
                                  <<s.image_width * s.scale_num + 2 * row.dx * s.scale_den,
                                    2 * s.scale_num>>)
                     /\ SameRatio(<<e.centers[k].v[2], 2 * s.scale_num>>,
                                  <<s.image_height * s.scale_num + 2 * row.dy * s.scale_den,
                                    2 * s.scale_num>>)
                     /\ SameRatio(e.widths[k].v, <<2 * row.a * s.scale_den, s.scale_num>>)
                     /\ SameRatio(e.heights[k].v, <<2 * row.b * s.scale_den, s.scale_num>>)
                     /\ SameRatio(e.angles[k].v, <<15 * row.beta, 1>>)

\* C10 (as stated): every scaled pixel of the highlighted and of the background
\* image is a number in [0,1], whatever the clip bounds, and so is every channel
\* of the composite image.
C10_ScaledInUnit ==
    /\ highlighted_z # <<>> =>
          \A p \in DOMAIN highlighted_z :
              InUnit(highlighted_z[p]) /\ InUnit(background_z[p])
    /\ final_rgb # <<>> => \A p \in DOMAIN final_rgb : final_rgb[p] = "unit"

\* The selected object at table row i has a match whose catalog row has the shape fields.
HasShapedMatch(i) == table[i].match >= 0 /\ detected[1][table[i].match].has_shape
\* The shapes of the match collection handed to the renderer; none when no
\* match collection is built.
MatchShapes ==
    IF \E c \in DOMAIN collections : collections[c].color = "match"
    THEN collections[CHOOSE c \in DOMAIN collections : collections[c].color = "match"].shapes
    ELSE [centers |-> <<>>, widths |-> <<>>, heights |-> <<>>, angles |-> <<>>]

\* C11 (as stated): with draw_moments and a match catalog, the match ellipses of a
\* finished run are exactly one per selected object that has a match whose catalog
\* row provides the shape fields, in table order; every one of them was assigned in
\* the loop, so their number is num_match_ellipses; and a matched object whose row
\* lacks a shape field leaves no partially written entry in the buffers.
C11_MatchEllipses ==
    (pc \in {"save", "show", "done"} /\ result = None /\ args.draw_moments
        /\ args.match_catalog # None) =>
        LET wanted == SelectSeq(selected_indices, HasShapedMatch)
            e == MatchShapes
            s == env.survey
        IN  /\ Len(e.centers) = Len(wanted)
            /\ Len(e.centers) = num_match_ellipses
            /\ \A k \in DOMAIN e.centers :
                  /\ e.centers[k].set /\ e.widths[k].set
                  /\ e.heights[k].set /\ e.angles[k].set
            /\ \A k \in 1..Len(wanted) :
                  LET m == detected[1][table[wanted[k]].match] IN
                  /\ e.centers[k].v = MatchCenter(s, m)
                  /\ e.widths[k].v = <<m.A_IMAGE, 1>>
                  /\ e.heights[k].v = <<m.B_IMAGE, 1>>
                  /\ e.angles[k].v = <<m.THETA_IMAGE, 1>>
            /\ \A k \in DOMAIN match_ellipses.centers :
                  match_ellipses.centers[k].set = match_ellipses.widths[k].set
====
